---- MODULE Spec2Model ----
(***************************************************************************)
(* Model of the shadow-geolocation scoring engine of ShadowTrace           *)
(* (src/src/lib/shadowfinder.ts).                                          *)
(*                                                                         *)
(* Number representation.  The program computes in IEEE doubles; the model *)
(* computes in exact integer / rational arithmetic:                        *)
(*   - a coordinate is an integer number of hundredths of a degree         *)
(*     (-60.0 is -6000, the step 0.5 is 50; all grid values are exact in   *)
(*     binary floating point, so the loop arithmetic is exact);            *)
(*   - a likelihood is a rational [n, d] with d > 0, not normalised;       *)
(*   - a solar altitude is an integer a on the tangent scale: a <= 0 is an *)
(*     altitude at or below the horizon, a > 0 is the altitude whose       *)
(*     tangent is a / TanScale (tan is strictly increasing on (0, pi/2),   *)
(*     so the order and the sign of the altitude are preserved);           *)
(*   - an accuracy is an integer number of metres.                         *)
(***************************************************************************)
EXTENDS Integers, Sequences, FiniteSets, TLC

VARIABLES pc, input, sky, lat, lng, points, count, last, queries, result,
          error, best,
          pair,      \* two analyses and the intersection drawn from them
          ui         \* the state of the page: Index and its AnalysisPanel

scanVars == <<pc, input, sky, lat, lng, points, count, last, queries, result,
              error, best>>
vars == <<scanVars, pair, ui>>

(***************************************************************************)
(* Program constants                                                       *)
(***************************************************************************)
LatStart == -6000
LatEnd == 8450
LngStart == -18000
LngEnd == 17950
angularResolution == 50
NightSentinel == -1
UltraTightPct == 5
TightPct == 8
MainBandPct == 10
VisiblePct == 15
KmPerDegree == 111
MinAccuracy == 1000

(***************************************************************************)
(* Bounds of the model                                                     *)
(***************************************************************************)
\* Spec retains the points of a window of the grid: its first two latitude
\* rows and its first ScanCols longitudes.  SpecGrid walks the whole grid.
ScanCols == 2
TanScale == 100

ScanLatEnd == LatStart + angularResolution
ScanLngEnd == LngStart + (ScanCols - 1) * angularResolution

\* inputs of analyzeShadowMeasurements
Heights == {-100, 0, 94, 100, 105, 108, 110, 115}
Lengths == {-100, 0, 100}
\* a Date: its time value is a number (hours here) or NaN
KnownTimes == {[isNaN |-> TRUE, time |-> 0], [isNaN |-> FALSE, time |-> 12]}
GridHeights == {0, 100, 105}
\* altitudes the solar position provider answers with (tangent scale)
Altitudes == {-10, 0, 100, 95, 92}

Null == "null"

(***************************************************************************)
(* Rational arithmetic                                                     *)
(***************************************************************************)
Abs(x) == IF x < 0 THEN -x ELSE x
Max(a, b) == IF a >= b THEN a ELSE b

Rat(n, d) == IF d < 0 THEN [n |-> -n, d |-> -d] ELSE [n |-> n, d |-> d]
RatInt(i) == [n |-> i, d |-> 1]
RatSub(x, y) == Rat(x.n * y.d - y.n * x.d, x.d * y.d)
RatDiv(x, y) == Rat(x.n * y.d, x.d * y.n)
RatAbs(x) == [n |-> Abs(x.n), d |-> x.d]
RatEq(x, y) == x.n * y.d = y.n * x.d
RatLeq(x, y) == x.n * y.d <= y.n * x.d
RatLess(x, y) == x.n * y.d < y.n * x.d
Pct(p) == [n |-> p, d |-> 100]

Range(s) == {s[i] : i \in 1..Len(s)}
\* Math.min written as Math.max
SetMinPasted(S) == CHOOSE x \in S : \A y \in S : x >= y

SetMin(S) == CHOOSE x \in S : \A y \in S : x <= y
SetMax(S) == CHOOSE x \in S : \A y \in S : x >= y

RECURSIVE SeqSum(_)
SeqSum(s) == IF s = <<>> THEN 0 ELSE Head(s) + SeqSum(Tail(s))

(***************************************************************************)
(* generateShadowFinderGrid                                                *)
(***************************************************************************)
\* Math.tan(sunAltitudeRad), for an altitude above the horizon
Tan(a) == Rat(a, TanScale)

\* relativeDiff computed against the calculated length instead of the measured one
LikelihoodOverCalculated(a, objectHeight, shadowLength) ==
    IF a <= 0
    THEN RatInt(NightSentinel)
    ELSE LET calculatedShadowLength == RatDiv(RatInt(objectHeight), Tan(a))
             relativeDiff == RatDiv(RatSub(calculatedShadowLength, RatInt(shadowLength)),
                                    calculatedShadowLength)
         IN  RatAbs(relativeDiff)

\* the signed relative difference, Math.abs left out
LikelihoodSigned(a, objectHeight, shadowLength) ==
    IF a <= 0
    THEN RatInt(NightSentinel)
    ELSE LET calculatedShadowLength == RatDiv(RatInt(objectHeight), Tan(a))
         IN  RatDiv(RatSub(calculatedShadowLength, RatInt(shadowLength)),
                    RatInt(shadowLength))

\* the likelihood of one grid point, given the altitude the provider returned
Likelihood(a, objectHeight, shadowLength) ==
    IF a <= 0
    THEN RatInt(NightSentinel)
    ELSE LET calculatedShadowLength == RatDiv(RatInt(objectHeight), Tan(a))
             relativeDiff == RatDiv(RatSub(calculatedShadowLength, RatInt(shadowLength)),
                                    RatInt(shadowLength))
         IN  RatAbs(relativeDiff)

\* a loop test with < in place of <=
LoopTestStrict(x, end) == x < end

\* the loop tests  lat <= 84.5  and  lng <= 179.5
LoopTest(x, end) == x <= end

\* control after one iteration of the inner loop: lng += 0.5; when the inner
\* loop ends, lat += 0.5 and lng restarts; the scan ends with the outer loop
LoopAdvance(la, ln, latEnd, lngEnd) ==
    IF LoopTest(ln + angularResolution, lngEnd)
    THEN [lat |-> la, lng |-> ln + angularResolution, pc |-> "scan"]
    ELSE IF LoopTest(la + angularResolution, latEnd)
         THEN [lat |-> la + angularResolution, lng |-> LngStart, pc |-> "scan"]
         ELSE [lat |-> la + angularResolution, lng |-> LngStart, pc |-> "classify"]

(***************************************************************************)
(* analyzeShadowMeasurements                                               *)
(***************************************************************************)
InvalidMeasurements == "Invalid measurements: object height and shadow length must be positive"
InvalidDate == "Invalid date/time provided"
NoMatches == "No suitable location matches found"

\* isNaN(input.knownTime.getTime())
IsNaN(date) == date.isNaN

\* the timestamp checked before the measurements
ValidationErrorDateFirst(in) ==
    IF IsNaN(in.knownTime) THEN InvalidDate
    ELSE IF in.objectHeight <= 0 \/ in.shadowLength <= 0 THEN InvalidMeasurements
    ELSE Null

\* the timestamp not checked
ValidationErrorNoDate(in) ==
    IF in.objectHeight <= 0 \/ in.shadowLength <= 0 THEN InvalidMeasurements
    ELSE Null

\* the shadow length not checked
ValidationErrorHeightOnly(in) ==
    IF in.objectHeight <= 0 THEN InvalidMeasurements
    ELSE IF IsNaN(in.knownTime) THEN InvalidDate
    ELSE Null

\* the exception thrown by the validation, or Null
ValidationError(in) ==
    IF in.objectHeight <= 0 \/ in.shadowLength <= 0 THEN InvalidMeasurements
    ELSE IF IsNaN(in.knownTime) THEN InvalidDate
    ELSE Null

IsNightPoint(p) == RatEq(p.likelihood, RatInt(NightSentinel))
\* a point counted as valid only with a likelihood above 0
IsValidPointPositive(p) == RatLess(RatInt(0), p.likelihood)

IsValidPoint(p) == ~RatEq(p.likelihood, RatInt(NightSentinel))
\* a band test without  p.likelihood >= 0
InBandNoFloor(p, pct) == RatLeq(p.likelihood, Pct(pct))

\* p.likelihood >= 0 && p.likelihood <= threshold
InBand(p, pct) == RatLeq(RatInt(0), p.likelihood) /\ RatLeq(p.likelihood, Pct(pct))
InUltraTightBand(p) == InBand(p, UltraTightPct)
InTightBand(p) == InBand(p, TightPct)

\* the visible band with  p.likelihood > 0
InVisibleBandPositive(p) ==
    RatLess(RatInt(0), p.likelihood) /\ RatLeq(p.likelihood, Pct(VisiblePct))

InVisibleBand(p) == InBand(p, VisiblePct)

\* the main band with the threshold of the tight band
InMainBandTight(p) == InBand(p, TightPct)

InMainBand(p) == InBand(p, MainBandPct)
MainBandPoints(ps) == SelectSeq(ps, InMainBand)

Lats(ps) == {ps[i].lat : i \in 1..Len(ps)}
Lngs(ps) == {ps[i].lng : i \in 1..Len(ps)}

\* the value returned after the scan, from the points and points.length
Analysis(ps, length) ==
    LET mainBandPoints == MainBandPoints(ps)
        latRange == IF Len(mainBandPoints) > 0
                    THEN <<SetMin(Lats(mainBandPoints)), SetMax(Lats(mainBandPoints))>>
                    ELSE <<0, 0>>
        lngRange == IF Len(mainBandPoints) > 0
                    THEN <<SetMin(Lngs(mainBandPoints)), SetMax(Lngs(mainBandPoints))>>
                    ELSE <<0, 0>>
    IN  [points |-> ps,
         mainBandCoordinates |-> [latRange |-> latRange, lngRange |-> lngRange],
         statistics |-> [
            totalPoints |-> length,
            validPoints |-> Len(SelectSeq(ps, IsValidPoint)),
            nightPoints |-> Len(SelectSeq(ps, IsNightPoint)),
            ultraTightBandPoints |-> Len(SelectSeq(ps, InUltraTightBand)),
            tightBandPoints |-> Len(SelectSeq(ps, InTightBand)),
            visibleBandPoints |-> Len(SelectSeq(ps, InVisibleBand))]]

(***************************************************************************)
(* estimateBestLocation                                                    *)
(***************************************************************************)
\* Array.prototype.sort with the comparator a.likelihood - b.likelihood
\* (stable): insertion of each element after the elements not greater
RECURSIVE InsertSorted(_, _)
InsertSorted(p, s) ==
    IF s = <<>> THEN <<p>>
    ELSE IF RatLess(p.likelihood, Head(s).likelihood) THEN <<p>> \o s
    ELSE <<Head(s)>> \o InsertSorted(p, Tail(s))

RECURSIVE SortByLikelihood(_)
SortByLikelihood(s) ==
    IF s = <<>> THEN <<>>
    ELSE InsertSorted(s[Len(s)], SortByLikelihood(SubSeq(s, 1, Len(s) - 1)))

\* the estimator selecting up to 0.08
IsBestPointTight(p) == InBand(p, TightPct)

\* p.likelihood >= 0 && p.likelihood <= 0.1, the filter of the estimator
IsBestPoint(p) == InBand(p, MainBandPct)

BestPoints(r) == SortByLikelihood(SelectSeq(r.points, IsBestPoint))

\* the accuracy returned as computed
AccuracyNoFloor(accuracy) == accuracy

\* Math.max(accuracy, 1)
AccuracyFloor(accuracy) == Max(accuracy, MinAccuracy)

\* Math.cos(avgLat * Math.PI / 180) in thousandths, avgLat rounded to a
\* hundredth of a degree: Bhaskara's rational approximation of the cosine,
\* (pi^2 - 4 x^2) / (pi^2 + x^2), with pi = 18000 hundredths of a degree
CosMilli(x) ==
    (((324000000 - 4 * x * x) \div 1000) * 1000) \div ((324000000 + x * x) \div 1000)

SeqOfLat(ps) == [i \in 1..Len(ps) |-> ps[i].lat]
SeqOfLng(ps) == [i \in 1..Len(ps) |-> ps[i].lng]

\* the coordinate of the best ranked point instead of the mean
AverageOfBest(s) == RatInt(s[1])

\* reduce((sum, x) => sum + x, 0) / length
Average(s) == Rat(SeqSum(s), Len(s))

\* what estimateBestLocation returns, or the exception it throws
EstimateBestLocation(r) ==
    LET bestPoints == BestPoints(r)
        avgLat == Average(SeqOfLat(bestPoints))
        avgLng == Average(SeqOfLng(bestPoints))
        latSpread == SetMax(Lats(bestPoints)) - SetMin(Lats(bestPoints))
        lngSpread == SetMax(Lngs(bestPoints)) - SetMin(Lngs(bestPoints))
        \* metres: a hundredth of a degree of latitude is 111 * 10 metres
        latMetres == latSpread * KmPerDegree * 10
        lngMetres == (lngSpread * KmPerDegree * 10 * CosMilli(avgLat.n \div avgLat.d)) \div 1000
        accuracy == Max(latMetres, lngMetres) \div 2
    IN  IF Len(bestPoints) = 0
        THEN [threw |-> NoMatches]
        ELSE [threw |-> Null,
              latitude |-> avgLat,
              longitude |-> avgLng,
              accuracy |-> AccuracyFloor(accuracy)]

(***************************************************************************)
(* ShadowFinderVisualization: the visible subset of a scan                 *)
(***************************************************************************)
IsVisiblePoint(p) ==
    ~RatEq(p.likelihood, RatInt(NightSentinel)) /\ RatLeq(p.likelihood, Pct(VisiblePct))
VisiblePoints(r) == SelectSeq(r.points, IsVisiblePoint)

(***************************************************************************)
(* One analysis request: analyzeShadowMeasurements followed by             *)
(* estimateBestLocation, as performShadowAnalysis calls them               *)
(***************************************************************************)
EmptySky == [c \in {} |-> 0]

\* no analysis of a pair of photographs in progress
PairIdle == [pc |-> "off"]

\* no page mounted
UiIdle == [handler |-> "off"]

Init ==
    /\ pc = "start"
    /\ input \in [objectHeight : Heights, shadowLength : Lengths, knownTime : KnownTimes]
    /\ sky = EmptySky
    /\ lat = Null
    /\ lng = Null
    /\ points = <<>>
    /\ count = 0
    /\ last = Null
    /\ queries = 0
    /\ result = Null
    /\ error = Null
    /\ best = Null
    /\ pair = PairIdle
    /\ ui = UiIdle

\* the two input checks; on success the loops are entered
Validate ==
    /\ pc = "start"
    /\ LET e == ValidationError(input)
       IN  IF e # Null
           THEN /\ error' = e
                /\ pc' = "failed"
                /\ UNCHANGED <<lat, lng>>
           ELSE /\ pc' = "scan"
                /\ lat' = LatStart
                /\ lng' = LngStart
                /\ UNCHANGED error
    /\ UNCHANGED <<input, sky, points, count, last, queries, result, best>>
    /\ UNCHANGED <<pair, ui>>

\* SunCalc.getPosition(knownTime, lat, lng).altitude: a function of its
\* arguments, whose value at a cell is fixed by the first query
Provider(cell, a) ==
    /\ a \in Altitudes
    /\ cell \in DOMAIN sky => a = sky[cell]

\* one iteration of the inner loop over the retained window
ScanStep ==
    /\ pc = "scan"
    /\ \E a \in Altitudes :
          /\ Provider(<<lat, lng>>, a)
          /\ sky' = (<<lat, lng>> :> a) @@ sky
          /\ points' = Append(points,
                [lat |-> lat, lng |-> lng,
                 likelihood |-> Likelihood(a, input.objectHeight, input.shadowLength)])
    /\ queries' = queries + 1
    /\ count' = count + 1
    /\ last' = [lat |-> lat, lng |-> lng]
    /\ LET adv == LoopAdvance(lat, lng, ScanLatEnd, ScanLngEnd)
       IN  /\ lat' = adv.lat
           /\ lng' = adv.lng
           /\ pc' = adv.pc
    /\ UNCHANGED <<input, result, error, best>>
    /\ UNCHANGED <<pair, ui>>

\* the statistics, the main band ranges and the return
Classify ==
    /\ pc = "classify"
    /\ result' = Analysis(points, count)
    /\ pc' = "analysed"
    /\ UNCHANGED <<input, sky, lat, lng, points, count, last, queries, error, best>>
    /\ UNCHANGED <<pair, ui>>

Estimate ==
    /\ pc = "analysed"
    /\ LET e == EstimateBestLocation(result)
       IN  IF e.threw # Null
           THEN /\ error' = e.threw
                /\ pc' = "failed"
                /\ UNCHANGED best
           ELSE /\ best' = e
                /\ pc' = "done"
                /\ UNCHANGED error
    /\ UNCHANGED <<input, sky, lat, lng, points, count, last, queries, result>>
    /\ UNCHANGED <<pair, ui>>

Next == Validate \/ ScanStep \/ Classify \/ Estimate

Spec == Init /\ [][Next]_vars

(***************************************************************************)
(* The scan over the whole grid.  The state keeps the loop variables, the  *)
(* length of the point array and the coordinates of the point pushed last; *)
(* the likelihoods, which do not influence the loops, are not retained.    *)
(***************************************************************************)
InitGrid ==
    /\ pc = "start"
    /\ input \in [objectHeight : GridHeights, shadowLength : {100}, knownTime : KnownTimes]
    /\ sky = EmptySky
    /\ lat = Null
    /\ lng = Null
    /\ points = <<>>
    /\ count = 0
    /\ last = Null
    /\ queries = 0
    /\ result = Null
    /\ error = Null
    /\ best = Null
    /\ pair = PairIdle
    /\ ui = UiIdle

GridStep ==
    /\ pc = "scan"
    /\ queries' = queries + 1
    /\ count' = count + 1
    /\ last' = [lat |-> lat, lng |-> lng]
    /\ LET adv == LoopAdvance(lat, lng, LatEnd, LngEnd)
       IN  /\ lat' = adv.lat
           /\ lng' = adv.lng
           /\ pc' = adv.pc
    /\ UNCHANGED <<input, sky, points, result, error, best>>
    /\ UNCHANGED <<pair, ui>>

GridReturn ==
    /\ pc = "classify"
    /\ result' = [statistics |-> [totalPoints |-> count]]
    /\ pc' = "analysed"
    /\ UNCHANGED <<input, sky, lat, lng, points, count, last, queries, error, best>>
    /\ UNCHANGED <<pair, ui>>

NextGrid == Validate \/ GridStep \/ GridReturn

SpecGrid == InitGrid /\ [][NextGrid]_vars

(***************************************************************************)
(* estimateBestLocation as a function of an arbitrary analysis result: the *)
(* points of the result are drawn in every order, with repetitions, from   *)
(* the corners of one grid cell and the likelihoods around the thresholds  *)
(***************************************************************************)
MaxPoints == 3

PointLats == {LatStart, LatStart + angularResolution}
PointLngs == {LngStart, LngStart + angularResolution}
PointLikelihoods == {RatInt(NightSentinel), RatInt(0), Pct(MainBandPct), Pct(VisiblePct)}
PointValues == [lat : PointLats, lng : PointLngs, likelihood : PointLikelihoods]

InitEstimate ==
    /\ pc = "analysed"
    /\ input = [objectHeight |-> 100, shadowLength |-> 100,
                knownTime |-> [isNaN |-> FALSE, time |-> 12]]
    /\ sky = EmptySky
    /\ lat = Null
    /\ lng = Null
    /\ points \in UNION {[1..n -> PointValues] : n \in 0..MaxPoints}
    /\ count = Len(points)
    /\ last = Null
    /\ queries = 0
    /\ result = Analysis(points, count)
    /\ error = Null
    /\ best = Null
    /\ pair = PairIdle
    /\ ui = UiIdle

NextEstimate == Estimate

SpecEstimate == InitEstimate /\ [][NextEstimate]_vars

(***************************************************************************)
(* Two analyses and their intersection.  Each photograph is analysed by    *)
(* one call of analyzeShadowMeasurements followed by estimateBestLocation  *)
(* (performShadowAnalysis); the visualization then combines the two scans. *)
(* The scans cover one row of PairCols longitudes.  The provider is a      *)
(* function of the time and the cell, drawn once.                          *)
(***************************************************************************)
PairCols == 3

PairLatEnd == LatStart
PairLngEnd == LngStart + (PairCols - 1) * angularResolution
PairCells == {<<LatStart, LngStart + k * angularResolution>> : k \in 0..(PairCols - 1)}

PairHeights == {100, 108}
PairTimes == {[isNaN |-> FALSE, time |-> 9], [isNaN |-> FALSE, time |-> 12]}
PairAltitudes == {0, 100, 92}
PairInputs == [objectHeight : PairHeights, shadowLength : {100}, knownTime : PairTimes]

\* the point array left by the previous call used again
NewPointsKept(old) == old

\* const points: ShadowFinderPoint[] = []  in every call
NewPoints(old) == <<>>

\* the points pushed by the two loops from the cell (la, ln) on
RECURSIVE GridFrom(_, _, _, _, _, _)
GridFrom(la, ln, latEnd, lngEnd, altitude, in) ==
    LET p == [lat |-> la, lng |-> ln,
              likelihood |-> Likelihood(altitude[<<la, ln>>],
                                        in.objectHeight, in.shadowLength)]
        adv == LoopAdvance(la, ln, latEnd, lngEnd)
    IN  IF adv.pc = "scan"
        THEN <<p>> \o GridFrom(adv.lat, adv.lng, latEnd, lngEnd, altitude, in)
        ELSE <<p>>

\* generateShadowFinderGrid over the row; old is the array of the call before
GenerateShadowFinderGrid(in, altitude, old) ==
    NewPoints(old) \o GridFrom(LatStart, LngStart, PairLatEnd, PairLngEnd, altitude, in)

\* analyzeShadowMeasurements for an input that passes the two checks
AnalyzeShadowMeasurements(in, altitude, old) ==
    LET ps == GenerateShadowFinderGrid(in, altitude, old)
    IN  Analysis(ps, Len(ps))

\* result.points sorted in place
PointsAfterEstimateInPlace(ps) == SortByLikelihood(ps)

\* result.points after estimateBestLocation: filter returns a new array and
\* sort orders that array
PointsAfterEstimate(ps) == ps

\* the points of a scan after the intersection is computed: every pushed
\* object is a new one made by the spread of secondPoint
PointsAfterIntersection(ps) == ps

\* Number.prototype.toFixed(1) of a coordinate in hundredths: the sign and
\* the tenths, halves rounded away from zero
ToFixed1(x) == [neg |-> x < 0, tenths |-> (Abs(x) + 5) \div 10]

\* a key made of the latitude only
PointKeyLatOnly(p) == <<ToFixed1(p.lat)>>

\* `${lat.toFixed(1)},${lng.toFixed(1)}`
PointKey(p) == <<ToFixed1(p.lat), ToFixed1(p.lng)>>

\* firstPointsMap.get(key): the point set last under the key, if any
MapGet(firstVisiblePoints, key) ==
    LET I == {i \in 1..Len(firstVisiblePoints) : PointKey(firstVisiblePoints[i]) = key}
    IN  IF I = {} THEN <<>> ELSE <<firstVisiblePoints[SetMax(I)]>>

RatMax(x, y) == IF RatLeq(y, x) THEN x ELSE y

\* Math.min in place of Math.max
CombinedLikelihoodMin(firstPoint, secondPoint) ==
    IF RatLeq(firstPoint.likelihood, secondPoint.likelihood)
    THEN firstPoint.likelihood ELSE secondPoint.likelihood

\* the likelihood of the first scan alone
CombinedLikelihoodFirst(firstPoint, secondPoint) == firstPoint.likelihood

\* Math.max(firstPoint.likelihood, secondPoint.likelihood)
CombinedLikelihood(firstPoint, secondPoint) ==
    RatMax(firstPoint.likelihood, secondPoint.likelihood)

\* {...secondPoint, combinedLikelihood, isIntersection: true}
IntersectionPoint(firstPoint, secondPoint) ==
    [lat |-> secondPoint.lat, lng |-> secondPoint.lng,
     likelihood |-> secondPoint.likelihood,
     combinedLikelihood |-> CombinedLikelihood(firstPoint, secondPoint),
     isIntersection |-> TRUE]

\* intersectionPoints after the forEach over secondVisiblePoints
RECURSIVE PushMatches(_, _)
PushMatches(firstVisiblePoints, secondVisiblePoints) ==
    IF secondVisiblePoints = <<>> THEN <<>>
    ELSE LET secondPoint == Head(secondVisiblePoints)
             firstPoint == MapGet(firstVisiblePoints, PointKey(secondPoint))
             rest == PushMatches(firstVisiblePoints, Tail(secondVisiblePoints))
         IN  IF firstPoint # <<>>
             THEN <<IntersectionPoint(firstPoint[1], secondPoint)>> \o rest
             ELSE rest

IntersectionPoints(analysisData, secondAnalysisData) ==
    PushMatches(VisiblePoints(analysisData), VisiblePoints(secondAnalysisData))

InitPair ==
    /\ pc = "off"
    /\ input = Null
    /\ sky = EmptySky
    /\ lat = Null
    /\ lng = Null
    /\ points = <<>>
    /\ count = 0
    /\ last = Null
    /\ queries = 0
    /\ result = Null
    /\ error = Null
    /\ best = Null
    /\ ui = UiIdle
    /\ \E altitudes \in [PairTimes -> [PairCells -> PairAltitudes]] :
          pair = [pc |-> "first",
                  altitudes |-> altitudes,
                  inputs |-> <<>>,
                  returned |-> <<>>,
                  analysisData |-> <<>>,
                  estimates |-> <<>>,
                  intersectionPoints |-> <<>>]

\* performShadowAnalysis for the next photograph: the scan, the stored
\* analysis data and the estimate.  returned keeps the value that
\* analyzeShadowMeasurements returned.
PairAnalyze ==
    /\ pair.pc \in {"first", "second"}
    /\ \E in \in PairInputs :
          LET old == IF pair.returned = <<>> THEN <<>>
                     ELSE pair.returned[Len(pair.returned)].points
              r == AnalyzeShadowMeasurements(in, pair.altitudes[in.knownTime], old)
              e == EstimateBestLocation(r)
              stored == [r EXCEPT !.points = PointsAfterEstimate(r.points)]
          IN  /\ ValidationError(in) = Null
              /\ pair' = [pair EXCEPT
                    !.pc = IF pair.pc = "first" THEN "second" ELSE "both",
                    !.inputs = Append(pair.inputs, in),
                    !.returned = Append(pair.returned, r),
                    !.analysisData = Append(pair.analysisData, stored),
                    !.estimates = Append(pair.estimates, e)]
    /\ UNCHANGED <<scanVars, ui>>

\* the visualization in intersection mode
PairIntersect ==
    /\ pair.pc = "both"
    /\ pair' = [pair EXCEPT
          !.pc = "drawn",
          !.analysisData = <<[pair.analysisData[1] EXCEPT
                                !.points = PointsAfterIntersection(@)],
                             [pair.analysisData[2] EXCEPT
                                !.points = PointsAfterIntersection(@)]>>,
          !.intersectionPoints =
              IntersectionPoints(pair.analysisData[1], pair.analysisData[2])]
    /\ UNCHANGED <<scanVars, ui>>

NextPair == PairAnalyze \/ PairIntersect

SpecPair == InitPair /\ [][NextPair]_vars

(***************************************************************************)
(* The page: Index with its two photograph slots, the InteractiveImage,    *)
(* the AnalysisPanel and the ShadowFinderVisualization it renders.  A      *)
(* nullable field is the empty sequence for null and <<v>> for a value.    *)
(* Click positions are pixels inside the displayed image, percentages are  *)
(* in thousandths of the image side.  The scans cover the row of PairCols  *)
(* longitudes and read a fixed altitude table.                             *)
(***************************************************************************)
DisplayWidth == 1000
DisplayHeight == 1000

Files == {"photo"}

\* POINT_CONFIGS, by currentStep + 1
PointTypes == <<"object-bottom", "object-top", "shadow-tip">>

\* where the user may click at each step: the top on the base or 100 pixels
\* above it, the tip on the base or 100 or 200 pixels to its right
ClickTargets ==
    <<{[x |-> 100, y |-> 200]},
      {[x |-> 100, y |-> 100], [x |-> 100, y |-> 200]},
      {[x |-> 200, y |-> 200], [x |-> 300, y |-> 200], [x |-> 100, y |-> 200]}>>

SelectedDates == {"", "2024-06-21", "2024-12-21"}
SelectedTimes == {"12:00", ""}

InvalidDateValue == [isNaN |-> TRUE, time |-> 0]

\* new Date(selectedDate + 'T' + selectedTime + 'Z')
NewDate(selectedDate, selectedTime) ==
    IF selectedDate = "" \/ selectedTime = ""
    THEN InvalidDateValue
    ELSE [isNaN |-> FALSE, time |-> IF selectedDate = "2024-06-21" THEN 1 ELSE 2]

Dates == {NewDate(d, t) : d \in SelectedDates, t \in SelectedTimes}

\* SunCalc.getPosition(date, lat, lng).altitude over the row: at the first
\* date day, day, night, ...; at the second date night, day, day, ...
SessionAltitude(date) ==
    [cell \in PairCells |->
        LET k == ((cell[2] - LngStart) \div angularResolution) % 3
        IN  IF date.time = 1
            THEN (IF k = 0 THEN 100 ELSE IF k = 1 THEN 92 ELSE 0)
            ELSE (IF k = 0 THEN 0 ELSE IF k = 1 THEN 92 ELSE 100)]

MissingPoints == "All three reference points must be marked"
NoDimensions == "Could not determine image display dimensions"
InvalidTimeValue == "Invalid time value"

EmptySlot ==
    [uploadedFile |-> <<>>, imageUrl |-> <<>>, points |-> <<>>,
     analysisResult |-> <<>>, shadowAnalysisData |-> <<>>,
     analysisDate |-> <<>>, analysisMeasurements |-> <<>>]

\* ((clientX - rect.left) / rect.width) * 100, in thousandths
ToPercentage(offset, side) == (offset * 1000) \div side

\* the ClickPoint that handleImageClick appends at step currentStep
NewPoint(click, currentStep) ==
    [x |-> ToPercentage(click.x, DisplayWidth),
     y |-> ToPercentage(click.y, DisplayHeight),
     type |-> PointTypes[currentStep + 1],
     imageDisplayWidth |-> DisplayWidth,
     imageDisplayHeight |-> DisplayHeight]

\* (percentage / 100) * side
ConvertPercentageToPixels(percentageCoords, imageWidth, imageHeight) ==
    [x |-> (percentageCoords.x * imageWidth) \div 1000,
     y |-> (percentageCoords.y * imageHeight) \div 1000]

\* Math.sqrt, rounded down to a whole pixel
Sqrt(n) == CHOOSE r \in 0..(DisplayWidth + DisplayHeight) : r * r <= n /\ n < (r + 1) * (r + 1)

\* measurements of at least one pixel
CalculateMeasurementsClamped(objectBottom, objectTop, shadowTip) ==
    [objectHeight |-> Max(1, Sqrt((objectTop.x - objectBottom.x) * (objectTop.x - objectBottom.x)
                           + (objectTop.y - objectBottom.y) * (objectTop.y - objectBottom.y))),
     shadowLength |-> Max(1, Sqrt((shadowTip.x - objectBottom.x) * (shadowTip.x - objectBottom.x)
                           + (shadowTip.y - objectBottom.y) * (shadowTip.y - objectBottom.y)))]

CalculateMeasurementsFromPixels(objectBottom, objectTop, shadowTip) ==
    [objectHeight |-> Sqrt((objectTop.x - objectBottom.x) * (objectTop.x - objectBottom.x)
                           + (objectTop.y - objectBottom.y) * (objectTop.y - objectBottom.y)),
     shadowLength |-> Sqrt((shadowTip.x - objectBottom.x) * (shadowTip.x - objectBottom.x)
                           + (shadowTip.y - objectBottom.y) * (shadowTip.y - objectBottom.y))]

\* points.find(p => p.type === type)
Find(ps, type) ==
    LET I == {i \in 1..Len(ps) : ps[i].type = type}
    IN  IF I = {} THEN <<>> ELSE <<ps[SetMin(I)]>>

\* a || b on numbers
OrElse(a, b) == IF a # 0 THEN a ELSE b

GetCurrentSlot(u) == u.slots[u.analysisMode]
GetCurrentImageUrl(u) == GetCurrentSlot(u).imageUrl
GetCurrentPoints(u) == GetCurrentSlot(u).points
GetCurrentMeasurements(u) == GetCurrentSlot(u).analysisMeasurements
GetCurrentShadowAnalysisData(u) == GetCurrentSlot(u).shadowAnalysisData

\* the option shown without a first analysis
CanShowSecondPhotoOptionNoData(u) ==
    /\ u.slots["second"].imageUrl = <<>>
    /\ u.analysisMode = "first"

\* the option shown in either mode
CanShowSecondPhotoOptionAnyMode(u) ==
    /\ u.slots["first"].shadowAnalysisData # <<>>
    /\ u.slots["second"].imageUrl = <<>>

CanShowSecondPhotoOption(u) ==
    /\ u.slots["first"].shadowAnalysisData # <<>>
    /\ u.slots["second"].imageUrl = <<>>
    /\ u.analysisMode = "first"

\* the first analysis alone taken for both
HasBothAnalysesFirstOnly(u) == u.slots["first"].shadowAnalysisData # <<>>

HasBothAnalyses(u) ==
    /\ u.slots["first"].shadowAnalysisData # <<>>
    /\ u.slots["second"].shadowAnalysisData # <<>>

\* the slot after handlePointsChange(newPoints)
SlotAfterPointsChange(slot, newPoints) ==
    LET objectBottom == Find(newPoints, "object-bottom")
        objectTop == Find(newPoints, "object-top")
        shadowTip == Find(newPoints, "shadow-tip")
    IN  IF Len(newPoints) = 3
        THEN IF /\ objectBottom # <<>> /\ objectTop # <<>> /\ shadowTip # <<>>
                /\ objectBottom[1].imageDisplayWidth # 0
                /\ objectBottom[1].imageDisplayHeight # 0
             THEN LET w == objectBottom[1].imageDisplayWidth
                      h == objectBottom[1].imageDisplayHeight
                  IN  [slot EXCEPT
                         !.points = newPoints,
                         !.analysisMeasurements =
                            <<CalculateMeasurementsFromPixels(
                                 ConvertPercentageToPixels(objectBottom[1], w, h),
                                 ConvertPercentageToPixels(objectTop[1], w, h),
                                 ConvertPercentageToPixels(shadowTip[1], w, h))>>]
             ELSE [slot EXCEPT !.points = newPoints]
        ELSE [slot EXCEPT !.points = newPoints, !.analysisMeasurements = <<>>]

\* performShadowAnalysis(date): the slot it leaves and what it returns or
\* throws
PerformShadowAnalysis(slot, date) ==
    LET objectBottom == Find(slot.points, "object-bottom")
        objectTop == Find(slot.points, "object-top")
        shadowTip == Find(slot.points, "shadow-tip")
    IN  IF objectBottom = <<>> \/ objectTop = <<>> \/ shadowTip = <<>>
        THEN [slot |-> slot, threw |-> MissingPoints]
        ELSE
        LET imageDisplayWidth ==
                OrElse(objectBottom[1].imageDisplayWidth,
                       OrElse(shadowTip[1].imageDisplayWidth, objectTop[1].imageDisplayWidth))
            imageDisplayHeight ==
                OrElse(objectBottom[1].imageDisplayHeight,
                       OrElse(shadowTip[1].imageDisplayHeight, objectTop[1].imageDisplayHeight))
            measurements ==
                CalculateMeasurementsFromPixels(
                    ConvertPercentageToPixels(objectBottom[1], imageDisplayWidth, imageDisplayHeight),
                    ConvertPercentageToPixels(objectTop[1], imageDisplayWidth, imageDisplayHeight),
                    ConvertPercentageToPixels(shadowTip[1], imageDisplayWidth, imageDisplayHeight))
            in == [objectHeight |-> measurements.objectHeight,
                   shadowLength |-> measurements.shadowLength,
                   knownTime |-> date]
            analysisResult == AnalyzeShadowMeasurements(in, SessionAltitude(date), <<>>)
            stored == [slot EXCEPT !.shadowAnalysisData = <<analysisResult>>,
                                   !.analysisDate = <<date>>,
                                   !.analysisMeasurements = <<measurements>>]
            bestLocation == EstimateBestLocation(analysisResult)
        IN  IF imageDisplayWidth = 0 \/ imageDisplayHeight = 0
            THEN [slot |-> slot, threw |-> NoDimensions]
            ELSE IF ValidationError(in) # Null
            THEN [slot |-> slot, threw |-> ValidationError(in)]
            ELSE IF bestLocation.threw # Null
            THEN [slot |-> stored, threw |-> bestLocation.threw]
            ELSE [slot |-> stored, threw |-> Null, result |-> bestLocation]

\* the props Index passes to ShadowFinderVisualization
VisualizationProps(u) ==
    LET both == HasBothAnalyses(u)
        first == u.slots["first"]
        second == u.slots["second"]
        current == GetCurrentSlot(u)
    IN  [analysisData |-> IF both THEN first.shadowAnalysisData ELSE current.shadowAnalysisData,
         knownTime |-> IF both THEN first.analysisDate ELSE current.analysisDate,
         measurements |-> IF both THEN first.analysisMeasurements ELSE current.analysisMeasurements,
         secondAnalysisData |-> IF both THEN second.shadowAnalysisData ELSE <<>>,
         secondKnownTime |-> IF both THEN second.analysisDate ELSE <<>>,
         secondMeasurements |-> IF both THEN second.analysisMeasurements ELSE <<>>,
         mode |-> IF both THEN "intersection" ELSE "single"]

IntersectionWarning == "Intersection mode requires second analysis data"

\* the effect of ShadowFinderVisualization once the map has loaded: what it
\* logs, what it throws, the points it draws
VisualizationEffect(props) ==
    IF props.analysisData = <<>>
    THEN [drawn |-> "nothing", warned |-> Null, threw |-> Null,
          points |-> <<>>, intersectionPoints |-> <<>>]
    ELSE IF /\ props.mode = "intersection"
            /\ \/ props.secondAnalysisData = <<>>
               \/ props.secondKnownTime = <<>>
               \/ props.secondMeasurements = <<>>
    THEN [drawn |-> "nothing", warned |-> IntersectionWarning, threw |-> Null,
          points |-> <<>>, intersectionPoints |-> <<>>]
    ELSE IF props.mode = "single"
    THEN [drawn |-> "single", warned |-> Null,
          threw |-> IF props.knownTime = <<>> \/ props.measurements = <<>>
                    THEN "TypeError" ELSE Null,
          points |-> VisiblePoints(props.analysisData[1]),
          intersectionPoints |-> <<>>]
    ELSE [drawn |-> "intersection", warned |-> Null,
          threw |-> IF props.knownTime = <<>> THEN "TypeError" ELSE Null,
          points |-> <<>>,
          intersectionPoints |->
              IntersectionPoints(props.analysisData[1], props.secondAnalysisData[1])]

\* what the page shows: the visualization is rendered when the current slot
\* has analysis data
View(u) ==
    IF GetCurrentShadowAnalysisData(u) = <<>>
    THEN [rendered |-> FALSE]
    ELSE [rendered |-> TRUE,
          props |-> VisualizationProps(u),
          effect |-> VisualizationEffect(VisualizationProps(u))]

InitialUi ==
    [analysisMode |-> "first",
     isAnalyzing |-> FALSE,
     slots |-> [first |-> EmptySlot, second |-> EmptySlot],
     selectedDate |-> "",
     selectedTime |-> "12:00",
     handler |-> "idle",     \* where handleAnalyze stands
     date |-> <<>>,          \* its argument
     outcome |-> <<>>,       \* what performShadowAnalysis returned or threw
     runs |-> 0,             \* calls of performShadowAnalysis in the last request
     console |-> <<>>]       \* the error logged last

ScanOff ==
    /\ pc = "off"
    /\ input = Null
    /\ sky = EmptySky
    /\ lat = Null
    /\ lng = Null
    /\ points = <<>>
    /\ count = 0
    /\ last = Null
    /\ queries = 0
    /\ result = Null
    /\ error = Null
    /\ best = Null

InitSession ==
    /\ ScanOff
    /\ pair = PairIdle
    /\ ui = InitialUi

\* no handler is running: the page reacts to the next event
Idle == ui.handler = "idle"

\* handleImageUpload, from the ImageUploader shown while the slot has no image
HandleImageUpload ==
    /\ Idle
    /\ GetCurrentImageUrl(ui) = <<>>
    /\ \E file \in Files :
          ui' = [ui EXCEPT !.slots[ui.analysisMode] =
                    [EmptySlot EXCEPT !.uploadedFile = <<file>>, !.imageUrl = <<file>>]]
    /\ UNCHANGED <<scanVars, pair>>

\* the Replace button of the InteractiveImage
OnImageReplace ==
    /\ Idle
    /\ GetCurrentImageUrl(ui) # <<>>
    /\ ui' = [ui EXCEPT !.slots[ui.analysisMode] = EmptySlot]
    /\ UNCHANGED <<scanVars, pair>>

\* handleImageClick and the handlePointsChange it calls
HandleImageClick ==
    /\ Idle
    /\ GetCurrentImageUrl(ui) # <<>>
    /\ Len(GetCurrentPoints(ui)) < Len(PointTypes)
    /\ LET currentStep == Len(GetCurrentPoints(ui))
       IN  \E click \in ClickTargets[currentStep + 1] :
              ui' = [ui EXCEPT !.slots[ui.analysisMode] =
                        SlotAfterPointsChange(@, Append(GetCurrentPoints(ui),
                                                        NewPoint(click, currentStep)))]
    /\ UNCHANGED <<scanVars, pair>>

\* handleReset and the handlePointsChange it calls
HandleReset ==
    /\ Idle
    /\ GetCurrentImageUrl(ui) # <<>>
    /\ GetCurrentPoints(ui) # <<>>
    /\ ui' = [ui EXCEPT !.slots[ui.analysisMode] = SlotAfterPointsChange(@, <<>>)]
    /\ UNCHANGED <<scanVars, pair>>

\* the date and the time inputs of the AnalysisPanel
SetSelectedDate ==
    /\ Idle
    /\ \E d \in SelectedDates : d # ui.selectedDate /\ ui' = [ui EXCEPT !.selectedDate = d]
    /\ UNCHANGED <<scanVars, pair>>

SetSelectedTime ==
    /\ Idle
    /\ \E t \in SelectedTimes : t # ui.selectedTime /\ ui' = [ui EXCEPT !.selectedTime = t]
    /\ UNCHANGED <<scanVars, pair>>

\* handleAnalyze up to the call of performShadowAnalysis
HandleAnalyzeCalled(u, date) ==
    [u EXCEPT !.isAnalyzing = TRUE, !.handler = "called", !.date = <<date>>,
              !.outcome = <<>>, !.runs = 0]

\* the Analyze button: enabled with three points and a date, while no
\* analysis runs; date.toISOString() throws on an invalid date, before
\* onAnalyze is called
PanelAnalyze ==
    /\ Idle
    /\ Len(GetCurrentPoints(ui)) = 3
    /\ ui.selectedDate # ""
    /\ ~ui.isAnalyzing
    /\ LET date == NewDate(ui.selectedDate, ui.selectedTime)
       IN  IF IsNaN(date)
           THEN ui' = [ui EXCEPT !.console = <<InvalidTimeValue>>]
           ELSE ui' = HandleAnalyzeCalled(ui, date)
    /\ UNCHANGED <<scanVars, pair>>

\* handleAnalyze called with any date in any state of the page
DirectAnalyze ==
    /\ Idle
    /\ \E date \in Dates : ui' = HandleAnalyzeCalled(ui, date)
    /\ UNCHANGED <<scanVars, pair>>

\* await performShadowAnalysis(date, time)
AnalyzePerform ==
    /\ ui.handler = "called"
    /\ LET r == PerformShadowAnalysis(GetCurrentSlot(ui), ui.date[1])
       IN  ui' = [ui EXCEPT !.slots[ui.analysisMode] = r.slot,
                            !.handler = IF r.threw = Null THEN "returned" ELSE "threw",
                            !.outcome = <<r>>,
                            !.runs = @ + 1]
    /\ UNCHANGED <<scanVars, pair>>

\* isAnalyzing left as it is when the analysis threw
IsAnalyzingOnSuccessOnly(isAnalyzing, handler) ==
    IF handler = "threw" THEN isAnalyzing ELSE FALSE

\* finally { setIsAnalyzing(false) }
IsAnalyzingFinally(isAnalyzing, handler) == FALSE

\* the result always stored for the first photograph
ResultSlotFirst(analysisMode) == "first"

\* if (analysisMode === 'first') setFirstAnalysisResult(result)
\* else setSecondAnalysisResult(result)
ResultSlot(analysisMode) == analysisMode

\* the stored result cleared when the analysis threw
ResultClearedOnError(analysisResult) == <<>>

\* catch (error) { console.error(...) }: no setter is called
ResultAfterError(analysisResult) == analysisResult

\* the rest of handleAnalyze: the result stored, or the error logged, and
\* the finally block
AnalyzeSettle ==
    /\ ui.handler \in {"returned", "threw"}
    /\ ui' = [ui EXCEPT
          !.slots[ResultSlot(ui.analysisMode)].analysisResult =
              IF ui.handler = "returned" THEN <<ui.outcome[1].result>>
                                         ELSE ResultAfterError(@),
          !.console = IF ui.handler = "threw" THEN <<ui.outcome[1].threw>> ELSE @,
          !.isAnalyzing = IsAnalyzingFinally(@, ui.handler),
          !.handler = "idle",
          !.date = <<>>,
          !.outcome = <<>>]
    /\ UNCHANGED <<scanVars, pair>>

\* the Add Second Photo button; the AnalysisPanel resets its date and time
\* when analysisMode changes
HandleStartSecondPhoto ==
    /\ Idle
    /\ CanShowSecondPhotoOption(ui)
    /\ ui' = [ui EXCEPT !.analysisMode = "second",
                        !.selectedDate = "", !.selectedTime = "12:00"]
    /\ UNCHANGED <<scanVars, pair>>

\* only the data of the first photograph cleared
SlotsAfterStartOverFirstOnly(slots) == [slots EXCEPT !.first = EmptySlot]

\* the fourteen setters of handleStartOver after setAnalysisMode
SlotsAfterStartOver(slots) == [first |-> EmptySlot, second |-> EmptySlot]

UiAfterStartOver(u) ==
    [u EXCEPT !.analysisMode = "first", !.slots = SlotsAfterStartOver(@)]

\* the Start Over button
HandleStartOver ==
    /\ Idle
    /\ CanShowSecondPhotoOption(ui)
    /\ ui' = UiAfterStartOver(ui)
    /\ UNCHANGED <<scanVars, pair>>

\* handleStartOver called in any state of the page
DirectStartOver ==
    /\ Idle
    /\ ui' = UiAfterStartOver(ui)
    /\ UNCHANGED <<scanVars, pair>>

NextSession ==
    \/ HandleImageUpload \/ OnImageReplace \/ HandleImageClick \/ HandleReset
    \/ SetSelectedDate \/ SetSelectedTime \/ PanelAnalyze
    \/ AnalyzePerform \/ AnalyzeSettle
    \/ HandleStartSecondPhoto \/ HandleStartOver

SpecSession == InitSession /\ [][NextSession]_vars

\* the handlers of Index called as functions: handleAnalyze with any date,
\* whatever the panel shows, and handleStartOver in any state
NextHandlers ==
    \/ HandleImageUpload \/ HandleImageClick \/ HandleReset
    \/ DirectAnalyze \/ AnalyzePerform \/ AnalyzeSettle
    \/ HandleStartSecondPhoto \/ DirectStartOver

SpecHandlers == InitSession /\ [][NextHandlers]_vars

(***************************************************************************)
(* Properties                                                              *)
(***************************************************************************)
LatSamples == 290
LngSamples == 720

\* the k-th cell (k >= 1) of the row-major enumeration of the fixed grid
CellAt(k) ==
    [lat |-> LatStart + ((k - 1) \div LngSamples) * angularResolution,
     lng |-> LngStart + ((k - 1) % LngSamples) * angularResolution]

\* the analysis has returned a result
Analysed == pc \in {"analysed", "done"} \/ (pc = "failed" /\ error = NoMatches)

\* the altitude the provider returned for the i-th point
AltAt(i) == sky[<<points[i].lat, points[i].lng>>]
DayIdx == {i \in 1..Len(points) : AltAt(i) > 0}
NightIdx == {i \in 1..Len(points) : AltAt(i) <= 0}
\* the i-th point scores at most pct hundredths and at least 0
ScoreWithin(i, pct) ==
    /\ points[i].likelihood.n >= 0
    /\ 100 * points[i].likelihood.n <= pct * points[i].likelihood.d

\* C1: for a valid input the scan over the whole grid pushes the cells in
\* row-major order, latitude -60.0 to 84.5 outside and longitude -180.0 to
\* 179.5 inside in steps of 0.5, each exactly once: the k-th point pushed is
\* the k-th cell, the scan ends after 290 * 720 = 208800 points and
\* statistics.totalPoints is 208800.
C1_GridRowMajor ==
    /\ count > 0 => last = CellAt(count)
    /\ pc = "scan" =>
          /\ count < LatSamples * LngSamples
          /\ [lat |-> lat, lng |-> lng] = CellAt(count + 1)
          /\ lat <= LatEnd /\ lng <= LngEnd
    /\ pc \in {"classify", "analysed"} =>
          /\ count = 208800
          /\ count = LatSamples * LngSamples
          /\ last = [lat |-> LatEnd, lng |-> LngEnd]
    /\ pc = "analysed" => result.statistics.totalPoints = 208800

C1_Witness ==
    /\ pc = "analysed"
    /\ input.objectHeight > 0 /\ input.shadowLength > 0 /\ ~input.knownTime.isNaN
    /\ result.statistics.totalPoints = 208800
    /\ last = [lat |-> 8450, lng |-> 17950]

\* C2: a point whose solar altitude is <= 0 has likelihood -1, is counted in
\* none of the ultra-tight, tight and visible band counts, and is neither in
\* the main-band subset (ranges, location estimate) nor in the visible subset
\* used for the intersection.
C2_NightNeverCounted ==
    /\ \A i \in NightIdx : points[i].likelihood = [n |-> -1, d |-> 1]
    /\ Analysed =>
          /\ result.statistics.ultraTightBandPoints
                = Cardinality({i \in DayIdx : ScoreWithin(i, 5)})
          /\ result.statistics.tightBandPoints
                = Cardinality({i \in DayIdx : ScoreWithin(i, 8)})
          /\ result.statistics.visibleBandPoints
                = Cardinality({i \in DayIdx : ScoreWithin(i, 15)})
          /\ \A p \in Range(MainBandPoints(result.points)) : sky[<<p.lat, p.lng>>] > 0
          /\ \A p \in Range(BestPoints(result)) : sky[<<p.lat, p.lng>>] > 0
          /\ \A p \in Range(VisiblePoints(result)) : sky[<<p.lat, p.lng>>] > 0

C2_Witness ==
    /\ Analysed
    /\ \E i \in NightIdx : AltAt(i) = 0
    /\ \E i \in NightIdx : AltAt(i) < 0
    /\ result.statistics.ultraTightBandPoints > 0
    /\ result.statistics.nightPoints > 0

\* C3: with objectHeight <= 0 or shadowLength <= 0 the analysis throws the
\* invalid-measurement error whatever the timestamp is (also an invalid one),
\* and returns no result.
C3_InvalidMeasurement ==
    (input.objectHeight <= 0 \/ input.shadowLength <= 0) =>
        /\ pc \in {"start", "failed"}
        /\ pc = "failed" => error = InvalidMeasurements
        /\ result = Null

C3_Witness ==
    /\ pc = "failed"
    /\ error = InvalidMeasurements
    /\ input.shadowLength <= 0
    /\ input.knownTime.isNaN

\* C4: with objectHeight > 0 and shadowLength > 0 and a knownTime whose time
\* value is NaN the analysis throws the invalid-timestamp error and returns
\* no result.
C4_InvalidTimestamp ==
    (input.objectHeight > 0 /\ input.shadowLength > 0 /\ input.knownTime.isNaN) =>
        /\ pc \in {"start", "failed"}
        /\ pc = "failed" => error = InvalidDate
        /\ result = Null

C4_Witness ==
    /\ pc = "failed"
    /\ error = InvalidDate
    /\ input.objectHeight > 0 /\ input.shadowLength > 0

\* C5: in a run that ends in the invalid-measurement or the invalid-timestamp
\* error the provider is never queried and no grid point is produced.
C5_ChecksBeforeSweep ==
    (input.objectHeight <= 0 \/ input.shadowLength <= 0 \/ input.knownTime.isNaN) =>
        /\ queries = 0
        /\ count = 0
        /\ points = <<>>
        /\ sky = EmptySky
        /\ pc # "scan"

C5_Witness ==
    /\ pc = "failed"
    /\ error \in {InvalidMeasurements, InvalidDate}
    /\ queries = 0
    /\ input.objectHeight > 0
    /\ input.shadowLength = 0

\* the estimator has been run on the result of the analysis
Estimated == pc = "done" \/ (pc = "failed" /\ error = NoMatches)
\* the indices of the points that score within [0, 0.10]
MainIdx == {i \in 1..Len(points) : ScoreWithin(i, 10)}

\* C6: estimateBestLocation throws the no-match error exactly when no point of
\* the scan has a likelihood in [0, 0.10]; with at least one such point it
\* returns an estimate.
C6_NoMatchExactly ==
    Estimated =>
        /\ (pc = "failed" /\ error = NoMatches /\ best = Null) <=> MainIdx = {}
        /\ pc = "done" <=> MainIdx # {}

C6_Witness ==
    /\ pc = "failed"
    /\ error = NoMatches
    /\ \E i \in DayIdx : ~ScoreWithin(i, 10) /\ ScoreWithin(i, 15)
    /\ NightIdx # {}

\* C7: whenever at least one point scores within [0, 0.10] the accuracy that
\* estimateBestLocation returns is at least 1.0 km, also for a single
\* matching point, whose two spreads are 0.
C7_AccuracyFloor ==
    (Estimated /\ MainIdx # {}) =>
        /\ pc = "done"
        /\ best.accuracy >= 1000
        /\ Cardinality(MainIdx) = 1 => best.accuracy = 1000

C7_Witness ==
    /\ pc = "done"
    /\ Cardinality(MainIdx) = 1
    /\ best.accuracy = 1000

\* C8: a point with solar altitude > 0 has likelihood
\* abs((objectHeight / tan(altitude) - shadowLength) / shadowLength); with
\* tan(altitude) = a / TanScale this is |H * TanScale - S * a| / (S * a), so
\* an over- and an under-estimation by the same relative amount score alike.
C8_LikelihoodFormula ==
    \A i \in DayIdx :
        LET l == points[i].likelihood
            H == input.objectHeight
            S == input.shadowLength
        IN  /\ l.d > 0
            /\ l.n * (S * AltAt(i)) = Abs(H * TanScale - S * AltAt(i)) * l.d

C8_Witness ==
    /\ pc = "classify"
    /\ \E i \in DayIdx : input.objectHeight * TanScale > input.shadowLength * AltAt(i)
    /\ \E i \in DayIdx : input.objectHeight * TanScale < input.shadowLength * AltAt(i)

\* C9: a point with solar altitude > 0 has likelihood >= 0, hence never the
\* night sentinel, and its likelihood is 0 if and only if the predicted shadow
\* length objectHeight / tan(altitude) equals shadowLength.
C9_LikelihoodNonNegative ==
    \A i \in DayIdx :
        LET l == points[i].likelihood
        IN  /\ l.d > 0
            /\ l.n >= 0
            /\ l.n # NightSentinel * l.d
            /\ l.n = 0 <=> input.objectHeight * TanScale = input.shadowLength * AltAt(i)

C9_Witness ==
    /\ pc = "classify"
    /\ \E i \in DayIdx : points[i].likelihood.n = 0
    /\ \E i \in DayIdx : points[i].likelihood.n > 0
    /\ NightIdx # {}

\* C10: ultraTightBandPoints <= tightBandPoints <= visibleBandPoints <=
\* validPoints, and a point counted in a band is counted in every band with
\* a larger threshold (0.05, 0.08, 0.15, inclusive, likelihood >= 0).
C10_BandMonotonicity ==
    Analysed =>
        /\ result.statistics.ultraTightBandPoints <= result.statistics.tightBandPoints
        /\ result.statistics.tightBandPoints <= result.statistics.visibleBandPoints
        /\ result.statistics.visibleBandPoints <= result.statistics.validPoints
        /\ \A i \in 1..Len(result.points) :
              LET p == result.points[i]
              IN  /\ InUltraTightBand(p) => InTightBand(p)
                  /\ InTightBand(p) => InVisibleBand(p)
                  /\ InVisibleBand(p) => IsValidPoint(p)
        /\ result.statistics.ultraTightBandPoints
              = Cardinality({i \in 1..Len(points) : ScoreWithin(i, 5)})
        /\ result.statistics.tightBandPoints
              = Cardinality({i \in 1..Len(points) : ScoreWithin(i, 8)})
        /\ result.statistics.visibleBandPoints
              = Cardinality({i \in 1..Len(points) : ScoreWithin(i, 15)})

C10_Witness ==
    /\ pc = "analysed"
    /\ 0 < result.statistics.ultraTightBandPoints
    /\ result.statistics.ultraTightBandPoints < result.statistics.tightBandPoints
    /\ result.statistics.tightBandPoints < result.statistics.visibleBandPoints
    /\ result.statistics.visibleBandPoints < result.statistics.totalPoints

C12_NightAndValidCounts ==
    Analysed =>
        LET st == result.statistics
        IN  /\ st.validPoints + st.nightPoints = st.totalPoints
            /\ st.totalPoints = Len(points)
            /\ st.nightPoints = Cardinality(NightIdx)
            /\ st.validPoints = Cardinality(DayIdx)
            /\ DayIdx = {} =>
                  /\ st.validPoints = 0
                  /\ st.nightPoints = st.totalPoints
                  /\ st.ultraTightBandPoints = 0
                  /\ st.tightBandPoints = 0
                  /\ st.visibleBandPoints = 0
                  /\ pc # "done"
                  /\ pc = "failed" => error = NoMatches

C12_Witness ==
    /\ pc = "failed"
    /\ error = NoMatches
    /\ DayIdx = {}
    /\ result.statistics.nightPoints = result.statistics.totalPoints
    /\ result.statistics.totalPoints > 0

\* the sum of s[i] over the indices i in S
RECURSIVE IdxSum(_, _)
IdxSum(S, s) ==
    IF S = {} THEN 0
    ELSE LET i == CHOOSE j \in S : TRUE IN s[i] + IdxSum(S \ {i}, s)

\* the indices of the points of the result with 0 <= likelihood <= 0.10
BestIdx(ps) ==
    {i \in 1..Len(ps) : 0 <= ps[i].likelihood.n
                          /\ 10 * ps[i].likelihood.n <= ps[i].likelihood.d}

\* the sequence ps with the elements at i and i + 1 exchanged
SwapAt(ps, i) ==
    [k \in 1..Len(ps) |-> IF k = i THEN ps[i + 1] ELSE IF k = i + 1 THEN ps[i] ELSE ps[k]]

\* C18: the estimate is the arithmetic mean of the latitudes and of the
\* longitudes of the best points, its accuracy is
\* max(1, max(latSpread * 111, lngSpread * 111 * cos(lat)) / 2) kilometres,
\* and none of the three depends on the order of the points of the input.
C18_CentroidAndAccuracy ==
    pc = "done" =>
        LET ps == result.points
            S == BestIdx(ps)
            n == Cardinality(S)
            sumLat == IdxSum(S, SeqOfLat(ps))
            sumLng == IdxSum(S, SeqOfLng(ps))
            lats == {ps[i].lat : i \in S}
            lngs == {ps[i].lng : i \in S}
            latSpread == SetMax(lats) - SetMin(lats)
            lngSpread == SetMax(lngs) - SetMin(lngs)
            latMetres == latSpread * 1110
            lngMetres == (lngSpread * 1110 * CosMilli(sumLat \div n)) \div 1000
        IN  /\ n > 0
            /\ best.latitude.n * n = sumLat * best.latitude.d
            /\ best.longitude.n * n = sumLng * best.longitude.d
            /\ best.accuracy = Max(1000, Max(latMetres, lngMetres) \div 2)
            /\ \A i \in 1..(Len(ps) - 1) :
                  EstimateBestLocation([result EXCEPT !.points = SwapAt(ps, i)]) = best

\* two best points given in descending order of likelihood, apart in both
\* coordinates, so that the sort reorders them and the accuracy is above
\* its floor
C18_Witness ==
    /\ pc = "done"
    /\ Cardinality(BestIdx(result.points)) >= 2
    /\ \E i, j \in BestIdx(result.points) :
          /\ i < j
          /\ RatLess(result.points[j].likelihood, result.points[i].likelihood)
          /\ result.points[i].lat # result.points[j].lat
          /\ result.points[i].lng # result.points[j].lng
    /\ best.accuracy > MinAccuracy

\* the cells of the row in scan order
PairCellAt(i) == [lat |-> LatStart, lng |-> LngStart + (i - 1) * angularResolution]

\* the cells at which the scan of photograph m is visible: in daylight and
\* with a likelihood of at most 0.15
VisibleIdx(m) ==
    LET in == pair.inputs[m]
    IN  {i \in 1..PairCols :
           LET a == pair.altitudes[in.knownTime][<<PairCellAt(i).lat, PairCellAt(i).lng>>]
           IN  /\ a > 0
               /\ 100 * Abs(in.objectHeight * TanScale - a * in.shadowLength)
                     <= 15 * a * in.shadowLength}

\* the likelihood of cell i in the scan of photograph m
PairScore(m, i) == pair.returned[m].points[i].likelihood

\* C13: the intersection set holds exactly one point for every cell visible
\* in both scans, with combinedLikelihood the larger of the two likelihoods
\* at the cell, and no point for a cell visible in one scan or in neither.
C13_IntersectionCells ==
    pair.pc = "drawn" =>
        LET both == VisibleIdx(1) \cap VisibleIdx(2)
            ips == pair.intersectionPoints
            At(i) == {k \in 1..Len(ips) : ips[k].lat = PairCellAt(i).lat
                                           /\ ips[k].lng = PairCellAt(i).lng}
        IN  /\ Len(ips) = Cardinality(both)
            /\ \A i \in 1..PairCols :
                  IF i \in both
                  THEN /\ Cardinality(At(i)) = 1
                       /\ \A k \in At(i) :
                             /\ RatLeq(PairScore(1, i), ips[k].combinedLikelihood)
                             /\ RatLeq(PairScore(2, i), ips[k].combinedLikelihood)
                             /\ \/ RatEq(PairScore(1, i), ips[k].combinedLikelihood)
                                \/ RatEq(PairScore(2, i), ips[k].combinedLikelihood)
                  ELSE At(i) = {}

\* a cell visible in both scans with different likelihoods, a cell visible
\* in the first scan only, a cell visible in neither
C13_Witness ==
    /\ pair.pc = "drawn"
    /\ \E i \in VisibleIdx(1) \cap VisibleIdx(2) :
          RatLess(PairScore(2, i), PairScore(1, i))
    /\ \E i \in VisibleIdx(1) : i \notin VisibleIdx(2)
    /\ \E i \in 1..PairCols : i \notin VisibleIdx(1) \cup VisibleIdx(2)
    /\ Len(pair.intersectionPoints) = 1

\* C14: with the same scan as both inputs the intersection set holds every
\* visible point of the scan exactly once, with combinedLikelihood equal to
\* the point's own likelihood, and nothing else.
C14_SelfIntersection ==
    (pair.pc = "drawn" /\ pair.returned[1] = pair.returned[2]) =>
        LET visible == VisiblePoints(pair.returned[1])
            ips == pair.intersectionPoints
        IN  /\ Len(ips) = Len(visible)
            /\ \A k \in 1..Len(ips) :
                  /\ ips[k].lat = visible[k].lat
                  /\ ips[k].lng = visible[k].lng
                  /\ ips[k].likelihood = visible[k].likelihood
                  /\ ips[k].combinedLikelihood = visible[k].likelihood

\* the same scan twice, with two visible points of different likelihoods and
\* a point that is not visible
C14_Witness ==
    /\ pair.pc = "drawn"
    /\ pair.returned[1] = pair.returned[2]
    /\ Len(pair.intersectionPoints) = 2
    /\ pair.intersectionPoints[1].combinedLikelihood
         # pair.intersectionPoints[2].combinedLikelihood
    /\ Len(pair.returned[1].points) > 2

BothScansComplete ==
    /\ ui.slots["first"].shadowAnalysisData # <<>>
    /\ ui.slots["second"].shadowAnalysisData # <<>>

\* the estimator applied to a set of intersection points, selecting on
\* combinedLikelihood
JointEstimate(ips) ==
    EstimateBestLocation(
        [points |-> [k \in 1..Len(ips) |->
                        [lat |-> ips[k].lat, lng |-> ips[k].lng,
                         likelihood |-> ips[k].combinedLikelihood]]])

\* the best-location results the page holds
StoredResults ==
    {ui.slots[m].analysisResult[1] :
        m \in {m \in {"first", "second"} : ui.slots[m].analysisResult # <<>>}}

\* C15: once both scans are complete, a joint best estimate is produced: the
\* estimator applied to the intersection points, selecting on
\* combinedLikelihood in [0, 0.10].
C15_JointEstimateProduced ==
    (Idle /\ BothScansComplete) =>
        LET joint == JointEstimate(
                IntersectionPoints(ui.slots["first"].shadowAnalysisData[1],
                                   ui.slots["second"].shadowAnalysisData[1]))
        IN  joint.threw = Null => joint \in StoredResults

\* the second scan as the visualization requires it: data, date, measurements
SecondScanIncomplete ==
    \/ ui.slots["second"].shadowAnalysisData = <<>>
    \/ ui.slots["second"].analysisDate = <<>>
    \/ ui.slots["second"].analysisMeasurements = <<>>

C20_AnalyzingCleared ==
    /\ ui.handler = "called" => ui.isAnalyzing /\ ui.runs = 0
    /\ ui.handler \in {"returned", "threw"} =>
          /\ ui.isAnalyzing /\ ui.runs = 1
          /\ ui.outcome[1].threw \in
                {Null, MissingPoints, NoDimensions, InvalidMeasurements, InvalidDate, NoMatches}
    /\ ui.handler = "idle" => ~ui.isAnalyzing /\ ui.runs <= 1

\* a request that failed on the timestamp has ended, after an earlier one
\* that succeeded
C20_Witness ==
    /\ ui.handler = "idle"
    /\ ~ui.isAnalyzing
    /\ ui.runs = 1
    /\ ui.console = <<InvalidDate>>
    /\ ui.slots["first"].analysisResult # <<>>

CombinedCells(ips) ==
    {[lat |-> ips[k].lat, lng |-> ips[k].lng,
      combinedLikelihood |-> ips[k].combinedLikelihood] : k \in 1..Len(ips)}

\* C28: the intersection is symmetric: with the two scans exchanged it has
\* the same cells, each with the same combinedLikelihood.
C28_IntersectionSymmetric ==
    pair.pc = "drawn" =>
        LET swapped == IntersectionPoints(pair.analysisData[2], pair.analysisData[1])
        IN  /\ CombinedCells(swapped) = CombinedCells(pair.intersectionPoints)
            /\ Len(swapped) = Len(pair.intersectionPoints)

\* two different scans that share a cell at which their likelihoods differ,
\* each visible at a cell where the other is not
C28_Witness ==
    /\ pair.pc = "drawn"
    /\ \E k \in 1..Len(pair.intersectionPoints) :
          ~RatEq(pair.intersectionPoints[k].likelihood,
                 pair.intersectionPoints[k].combinedLikelihood)
    /\ \E i \in VisibleIdx(1) : i \notin VisibleIdx(2)
    /\ \E i \in VisibleIdx(2) : i \notin VisibleIdx(1)

\* two marked points at the same place of the image
Coincide(p, q) == p.x = q.x /\ p.y = q.y

\* C21: calculateMeasurementsFromPixels returns measurements for any three
\* points, a zero objectHeight when the top coincides with the base and a
\* zero shadowLength when the tip does; an analysis requested with such a
\* measurement throws the invalid-measurement error and leaves both slots as
\* they were, so that it stores no analysis data.
C21_ZeroMeasurementRejected ==
    [][/\ \A m \in {"first", "second"} :
            LET slot == ui'.slots[m]
            IN  Len(slot.points) = 3 =>
                  /\ slot.analysisMeasurements # <<>>
                  /\ slot.analysisMeasurements[1].objectHeight = 0
                        <=> Coincide(slot.points[2], slot.points[1])
                  /\ slot.analysisMeasurements[1].shadowLength = 0
                        <=> Coincide(slot.points[3], slot.points[1])
       /\ (/\ ui.handler = "called"
           /\ Len(GetCurrentPoints(ui)) = 3
           /\ \/ Coincide(GetCurrentPoints(ui)[2], GetCurrentPoints(ui)[1])
              \/ Coincide(GetCurrentPoints(ui)[3], GetCurrentPoints(ui)[1]))
          => /\ ui'.handler = "threw"
             /\ ui'.outcome[1].threw = InvalidMeasurements
             /\ ui'.slots = ui.slots
       /\ (ui.handler = "threw" /\ ui.outcome[1].threw = InvalidMeasurements)
          => /\ ui'.slots = ui.slots
             /\ ui'.console = <<InvalidMeasurements>>
      ]_vars

\* a request with the shadow tip on the base has ended: the error is logged
\* and the slot holds no analysis data
C21_Witness ==
    /\ Idle
    /\ ui.console = <<InvalidMeasurements>>
    /\ Len(GetCurrentPoints(ui)) = 3
    /\ GetCurrentMeasurements(ui) # <<>>
    /\ GetCurrentMeasurements(ui)[1].shadowLength = 0
    /\ GetCurrentMeasurements(ui)[1].objectHeight > 0
    /\ GetCurrentShadowAnalysisData(ui) = <<>>

\* C22: in every state of the page reached through the rendered controls,
\* analysisMode = 'second' implies that the first slot holds analysis data,
\* and analysisMode = 'first' implies that the second slot is entirely empty.
C22_ModeInvariant ==
    /\ ui.analysisMode = "second" => ui.slots["first"].shadowAnalysisData # <<>>
    /\ ui.analysisMode = "first" =>
          /\ ui.slots["second"].uploadedFile = <<>>
          /\ ui.slots["second"].imageUrl = <<>>
          /\ ui.slots["second"].points = <<>>
          /\ ui.slots["second"].shadowAnalysisData = <<>>
          /\ ui.slots["second"].analysisDate = <<>>
          /\ ui.slots["second"].analysisMeasurements = <<>>
          /\ ui.slots["second"].analysisResult = <<>>

\* the second photograph analysed while the first analysis is kept
C22_Witness ==
    /\ ui.analysisMode = "second"
    /\ ui.slots["second"].analysisResult # <<>>
    /\ ui.slots["first"].analysisResult # <<>>

\* C29: once analysisMode is 'second' it stays 'second' under every action
\* of the interface; a step that empties a first slot holding analysis data
\* starts in mode 'first' with no second image loaded.
C29_SecondModeStays ==
    [][/\ ui.analysisMode = "second" => ui'.analysisMode = "second"
       /\ (/\ ui.slots["first"].shadowAnalysisData # <<>>
           /\ ui'.slots["first"] = EmptySlot)
          => ui.analysisMode = "first" /\ ui.slots["second"].imageUrl = <<>>
      ]_vars

\* in mode 'second' with the second image loaded and its points reset after
\* an analysis
C29_Witness ==
    /\ ui.analysisMode = "second"
    /\ Idle
    /\ ui.slots["second"].imageUrl # <<>>
    /\ ui.slots["second"].shadowAnalysisData # <<>>
    /\ ui.slots["second"].points = <<>>

\* C30: whenever handleStartOver runs, the session it leaves is the initial
\* one: analysisMode 'first' and both slots without file, image, points,
\* result, analysis data, date and measurements.
C30_StartOverResets ==
    [][DirectStartOver =>
          /\ ui'.analysisMode = InitialUi.analysisMode
          /\ ui'.slots = InitialUi.slots
          /\ \A m \in {"first", "second"} :
                /\ ui'.slots[m].uploadedFile = <<>>
                /\ ui'.slots[m].imageUrl = <<>>
                /\ ui'.slots[m].points = <<>>
                /\ ui'.slots[m].analysisResult = <<>>
                /\ ui'.slots[m].shadowAnalysisData = <<>>
                /\ ui'.slots[m].analysisDate = <<>>
                /\ ui'.slots[m].analysisMeasurements = <<>>
      ]_vars

\* the session emptied after an analysis that found no match: only
\* handleStartOver empties a slot here
C30_Witness ==
    /\ Idle
    /\ ui.analysisMode = "first"
    /\ ui.slots = InitialUi.slots
    /\ ui.console = <<NoMatches>>

\* C23: whenever the visualization is rendered in single mode for the current
\* slot, the measurements and the analysis date of that slot are non-null,
\* so that the effect throws nothing.
C23_SingleModeMeasurements ==
    (View(ui).rendered /\ View(ui).props.mode = "single") =>
        /\ GetCurrentSlot(ui).analysisMeasurements # <<>>
        /\ GetCurrentSlot(ui).analysisDate # <<>>
        /\ View(ui).props.measurements # <<>>
        /\ View(ui).props.knownTime # <<>>
        /\ View(ui).effect.threw = Null

\* C24: for each slot, a stored best-location result comes with stored
\* analysis data and equals estimateBestLocation of the data stored now.
C24_ResultMatchesData ==
    Idle =>
        \A m \in {"first", "second"} :
            ui.slots[m].analysisResult # <<>> =>
                /\ ui.slots[m].shadowAnalysisData # <<>>
                /\ ui.slots[m].analysisResult[1]
                     = EstimateBestLocation(ui.slots[m].shadowAnalysisData[1])

\* the slot that is not the current one
OtherSlot(analysisMode) == IF analysisMode = "first" THEN "second" ELSE "first"

\* C25: handleImageUpload, the image-replace handler, handlePointsChange (on
\* a click and on a reset) and handleAnalyze, run with analysisMode = m,
\* leave every field of the other slot unchanged.  No step of the page
\* changes the slot that is not current, and only the two buttons of the
\* second photo card change a slot without being one of these handlers.
C25_OtherSlotUnchanged ==
    [][/\ ui'.slots[OtherSlot(ui.analysisMode)] = ui.slots[OtherSlot(ui.analysisMode)]
       /\ ui'.slots # ui.slots =>
             \/ ui'.analysisMode = ui.analysisMode
             \/ CanShowSecondPhotoOption(ui)
      ]_vars

\* the second photograph replaced after its analysis, the first slot still
\* holding its image, points, data and result
C25_Witness ==
    /\ Idle
    /\ ui.analysisMode = "second"
    /\ ui.slots["second"] = EmptySlot
    /\ ui.runs = 1
    /\ ui.console = <<NoMatches>>
    /\ ui.slots["first"].analysisResult # <<>>
    /\ Len(ui.slots["first"].points) = 3

\* the errors thrown before performShadowAnalysis stores anything
ValidationFailures == {MissingPoints, NoDimensions, InvalidMeasurements, InvalidDate}

\* the slot with the display dimensions missing from its points
WithoutDimensions(slot) ==
    [slot EXCEPT !.points =
        [i \in 1..Len(slot.points) |->
            [slot.points[i] EXCEPT !.imageDisplayWidth = 0, !.imageDisplayHeight = 0]]]

\* C26: an analysis request that fails because a reference point is missing,
\* the display dimensions are unknown, the measurement is invalid or the
\* timestamp is invalid changes nothing of the slot (its analysis data, date,
\* measurements and best-location result): neither the step in which
\* performShadowAnalysis throws nor the step in which handleAnalyze catches
\* the error changes a slot.  Points marked through the image always carry
\* the display dimensions, so the request on the current points without them
\* is checked on performShadowAnalysis itself.
C26_FailedRequestKeepsSlot ==
    [][/\ (/\ ui.handler = "called"
           /\ ui'.handler = "threw"
           /\ ui'.outcome[1].threw \in ValidationFailures) => ui'.slots = ui.slots
       /\ (/\ ui.handler = "threw"
           /\ ui.outcome[1].threw \in ValidationFailures) => ui'.slots = ui.slots
       /\ (ui.handler = "called" /\ Len(GetCurrentPoints(ui)) = 3) =>
             LET slot == WithoutDimensions(GetCurrentSlot(ui))
             IN  PerformShadowAnalysis(slot, ui.date[1]) =
                     [slot |-> slot, threw |-> NoDimensions]
      ]_vars

\* an analysis with an invalid timestamp has failed after a successful one,
\* and the slot still holds the data and the result of the successful one
C26_Witness ==
    /\ Idle /\ ui.console = <<InvalidDate>>
    /\ GetCurrentShadowAnalysisData(ui) # <<>>
    /\ GetCurrentSlot(ui).analysisResult # <<>>
    /\ GetCurrentSlot(ui).analysisDate # <<>>
    /\ GetCurrentMeasurements(ui) # <<>>

====
